---- MODULE Spec2Model ----
(***************************************************************************)
(* Model of mdmath-js/src/processor.js: the equation render service.       *)
(*                                                                         *)
(* One render request is one asynchronous run of processEquation.  A run   *)
(* is suspended at each await (equationToSVG, rsvgConvert, pngDimensions,  *)
(* pngFitTo); between two suspension points its code runs atomically on    *)
(* the single JavaScript thread.  The position of each run is the pc field *)
(* of its entry in tasks.                                                  *)
(*                                                                         *)
(* Strings the code inspects character by character (the equation text,    *)
(* the color) are sequences of one-character strings; strings the code     *)
(* only builds (keys, filenames, output chunks) are TLA+ strings.          *)
(***************************************************************************)
EXTENDS Integers, Sequences, FiniteSets, TLC

VARIABLES
    equations,      \* line 21: the cleanup list, in push order
    equationMap,    \* line 24: equation_key -> {equation, filename, width, height}
    svgCache,       \* line 26: equation text -> {svg} or {error}
    internalScale,  \* line 28
    dynamicScale,   \* line 29
    tasks,          \* the runs of processEquation, in dispatch order
    stdout,         \* the chunks written to process.stdout, in write order
    files,          \* the filesystem under IMG_DIR: filename -> image content
    dirExists,      \* whether IMG_DIR exists
    proc            \* "starting" | "initializing" | "running" | "exited"
                    \* | "aborted"

vars == <<equations, equationMap, svgCache, internalScale, dynamicScale,
          tasks, stdout, files, dirExists, proc>>

----------------------------------------------------------------------------
(* Bounds of the model. *)

\* Render requests the client sends in one behaviour.
MaxRequests == 2

\* Scale values a scale-update request may carry: 1..MaxScale.
MaxScale == 2

\* Times the client sends one and the same render request in one behaviour.
MaxRepeats == 3

----------------------------------------------------------------------------
(* Strings. *)

\* A text is a sequence of characters, each a string of one character, so
\* that a text has the length and the equality of the string it models.  A
\* character outside printable ASCII, and the grave accent U+0060, is written
\* as one element holding its escape: "\\u2028" is the single character
\* U+2028, and is a different text from the six characters of its spelling.

RECURSIVE Digits(_)
\* String(n) for an integer n >= 0, as the template literal of line 133
\* interpolates a number.
Digits(n) ==
    IF n < 10 THEN <<ToString(n)>>
    ELSE Digits(n \div 10) \o <<ToString(n % 10)>>

\* Characters String.prototype.trim removes: the WhiteSpace of ECMAScript
\* (tab, U+000B, form feed, space, U+00A0, U+FEFF and the Unicode space
\* separators U+1680, U+2000 to U+200A, U+202F, U+205F, U+3000) and its
\* LineTerminators (line feed, carriage return, U+2028, U+2029).
Whitespace ==
    {" ", "\t", "\n", "\r", "\f", "\\u000B", "\\u00A0", "\\uFEFF", "\\u1680",
     "\\u2000", "\\u2001", "\\u2002", "\\u2003", "\\u2004", "\\u2005",
     "\\u2006", "\\u2007", "\\u2008", "\\u2009", "\\u200A", "\\u2028",
     "\\u2029", "\\u202F", "\\u205F", "\\u3000"}

RECURSIVE TrimStart(_)
TrimStart(s) ==
    IF s # <<>> /\ Head(s) \in Whitespace THEN TrimStart(Tail(s)) ELSE s

RECURSIVE TrimEnd(_)
TrimEnd(s) ==
    IF s # <<>> /\ s[Len(s)] \in Whitespace
    THEN TrimEnd(SubSeq(s, 1, Len(s) - 1))
    ELSE s

\* equation.trim()
trim(s) == TrimEnd(TrimStart(s))

\* The test of line 130 without its trim: only the empty text is rejected.
IsEmptyEquationUntrimmed(equation) == equation = <<>>

\* line 130: !equation || equation.trim().length === 0
IsEmptyEquation(equation) == equation = <<>> \/ Len(trim(equation)) = 0

\* Math.ceil(a / b) for integers a >= 0, b > 0.
CeilDiv(a, b) == (a + b - 1) \div b

Max(a, b) == IF a >= b THEN a ELSE b

----------------------------------------------------------------------------
(* Constants of the program. *)

\* line 11: randomBytes(3).toString('hex'), drawn once per process.
DIRECTORY_SUFFIX == "3f9a1c"

\* line 16
IMG_DIR == "/tmp/nvim-mdmath-" \o DIRECTORY_SUFFIX

\* Property names every plain object inherits from Object.prototype: the
\* `in` operator of line 88 finds them in svgCache although nothing was stored.
ObjectPrototypeKeys ==
    {<<"c", "o", "n", "s", "t", "r", "u", "c", "t", "o", "r">>,
     <<"t", "o", "S", "t", "r", "i", "n", "g">>,
     <<"t", "o", "L", "o", "c", "a", "l", "e", "S", "t", "r", "i", "n", "g">>,
     <<"v", "a", "l", "u", "e", "O", "f">>,
     <<"h", "a", "s", "O", "w", "n", "P", "r", "o", "p", "e", "r", "t", "y">>,
     <<"i", "s", "P", "r", "o", "t", "o", "t", "y", "p", "e", "O", "f">>,
     <<"p", "r", "o", "p", "e", "r", "t", "y", "I", "s", "E", "n", "u", "m",
       "e", "r", "a", "b", "l", "e">>,
     <<"_", "_", "p", "r", "o", "t", "o", "_", "_">>,
     <<"_", "_", "d", "e", "f", "i", "n", "e", "G", "e", "t", "t", "e", "r",
       "_", "_">>,
     <<"_", "_", "d", "e", "f", "i", "n", "e", "S", "e", "t", "t", "e", "r",
       "_", "_">>,
     <<"_", "_", "l", "o", "o", "k", "u", "p", "G", "e", "t", "t", "e", "r",
       "_", "_">>,
     <<"_", "_", "l", "o", "o", "k", "u", "p", "S", "e", "t", "t", "e", "r",
       "_", "_">>}

\* The message of the TypeError thrown by `error.length` when error is undefined.
TypeErrorMessage == "Cannot read properties of undefined (reading 'length')"

----------------------------------------------------------------------------
(* Output framing. *)

\* line 109-111: what is written for a success: the interpolated values, and
\* the chunk handed to process.stdout.write.
write(identifier, width, height, data) ==
    [identifier |-> identifier, type |-> "image", width |-> width,
     height |-> height, length |-> Len(data), data |-> data,
     chunk |-> identifier \o ":image:" \o ToString(width) \o ":"
                 \o ToString(height) \o ":" \o ToString(Len(data)) \o ":" \o data]

\* line 113-115: what is written for an error.
writeError(identifier, error) ==
    [identifier |-> identifier, type |-> "error", width |-> 0, height |-> 0,
     length |-> Len(error), data |-> error,
     chunk |-> identifier \o ":error:0:0:" \o ToString(Len(error)) \o ":"
                 \o error]

----------------------------------------------------------------------------
(* Requests. *)

\* A decoded render request (processAll, lines 188-196).
Req(equation, cellWidth, cellHeight, width, height, flags, color) ==
    [equation |-> equation, cellWidth |-> cellWidth, cellHeight |-> cellHeight,
     width |-> width, height |-> height, flags |-> flags, color |-> color]

\* line 133: the key of the rendered-image cache.
equation_key(r) ==
    r.equation \o <<"_">> \o Digits(r.cellWidth) \o <<"*">> \o Digits(r.width)
        \o <<"x">> \o Digits(r.cellHeight) \o <<"*">> \o Digits(r.height)
        \o <<"_">> \o Digits(r.flags) \o <<"_">> \o r.color

\* line 147: !!(flags & 1)
isDynamic(flags) == flags % 2 = 1

\* line 174: !!(flags & 2)
isCenter(flags) == (flags \div 2) % 2 = 1

----------------------------------------------------------------------------
(* The Typesetter (MathJax), as the program sees it. *)

RECURSIVE BraceDepth(_, _)
\* Depth of open braces after reading s from depth d; -1 once a close brace
\* has no open brace to match.
BraceDepth(s, d) ==
    IF d < 0 \/ s = <<>> THEN d
    ELSE BraceDepth(Tail(s), IF Head(s) = "{" THEN d + 1
                             ELSE IF Head(s) = "}" THEN d - 1
                             ELSE d)

\* Whether the text gives one base two subscripts, as a_b_c does.
DoubleSubscript(s) ==
    \E k \in 1..(Len(s) - 2) :
        /\ s[k] = "_"
        /\ s[k + 1] \notin {"_", "{", "}", " "}
        /\ s[k + 2] = "_"

\* Whether MathJax reports a TeX error for the text (formatError, line 238),
\* which reaches equationToSVG as a MathError.
IsMalformed(equation) ==
    BraceDepth(equation, 0) # 0 \/ DoubleSubscript(equation)

\* The message of that MathError.
MathErrorMessage(equation) ==
    IF BraceDepth(equation, 0) > 0
    THEN "Missing close brace"
    ELSE IF BraceDepth(equation, 0) < 0
    THEN "Extra close brace or missing open brace"
    ELSE "Double subscripts: use braces to clarify"

\* The marker MathJax writes as the fill of its markup.
currentColor ==
    <<"c", "u", "r", "r", "e", "n", "t", "C", "o", "l", "o", "r">>

\* The inline style MathJax writes on the root element.
InlineStyle ==
    <<"v", "e", "r", "t", "i", "c", "a", "l", "-", "a", "l", "i", "g", "n",
      ":", " ", "-", "0", ".", "0", "2", "5", "e", "x", ";">>

\* line 92-94: the markup MathJax produces for a well-formed text.  The fill is
\* the marker currentColor, and the root element carries an inline style.
tex2svg(equation) ==
    [equation |-> equation, fill |-> currentColor, style |-> InlineStyle]

\* The message of a failure of MathJax that is no MathError.
TypesetterFault == "MathJax: internal error"

\* The value of an svg not yet produced.
NoSvg == [equation |-> <<>>, fill |-> <<>>, style |-> <<>>]

\* The markup of an svg before its text, before the value of its fill
\* attribute and after that value, and the whole of it.
markupHead(svg) ==
    <<"<", "s", "v", "g", " ", "s", "t", "y", "l", "e", "=", "\"">>
        \o svg.style
        \o <<"\"", " ", "d", "a", "t", "a", "-", "e", "q", "=", "\"">>
markupBefore(svg) ==
    markupHead(svg) \o svg.equation
        \o <<"\"", " ", "f", "i", "l", "l", "=", "\"">>
markupAfter(svg) == <<"\"", ">", "<", "/", "s", "v", "g", ">">>
markup(svg) == markupBefore(svg) \o svg.fill \o markupAfter(svg)

RECURSIVE replacement(_, _, _, _)
\* line 144: what String.prototype.replace substitutes for a match when given
\* the replacement string color: $$ is a dollar sign, $& the match, $ with a
\* grave accent the text before the match, $ with an apostrophe the text
\* after it; the pattern has no groups, so any other $ stands for itself.
replacement(color, match, before, after) ==
    IF color = <<>> THEN <<>>
    ELSE IF Head(color) = "$" /\ Len(color) >= 2
              /\ color[2] \in {"$", "&", "\\u0060", "'"}
    THEN (CASE color[2] = "$" -> <<"$">>
            [] color[2] = "&" -> match
            [] color[2] = "\\u0060" -> before
            [] color[2] = "'" -> after)
         \o replacement(Tail(Tail(color)), match, before, after)
    ELSE <<Head(color)>> \o replacement(Tail(color), match, before, after)

RECURSIVE replaceAll(_, _, _, _, _)
\* line 144: replace(/currentColor/g, color) on the part `text` of the string
\* `whole` that starts after `offset` characters of it, from position k of
\* the part: every occurrence of the marker, left to right, is replaced, the
\* text before and after a match being that of the whole string.
replaceAll(text, k, whole, offset, color) ==
    IF k > Len(text) THEN <<>>
    ELSE IF /\ k + Len(currentColor) - 1 <= Len(text)
            /\ SubSeq(text, k, k + Len(currentColor) - 1) = currentColor
    THEN replacement(color, currentColor,
                     SubSeq(whole, 1, offset + k - 1),
                     SubSeq(whole, offset + k + Len(currentColor),
                            Len(whole)))
         \o replaceAll(text, k + Len(currentColor), whole, offset, color)
    ELSE <<text[k]>> \o replaceAll(text, k + 1, whole, offset, color)

\* line 143-145: substitute the color for every marker of the markup (the
\* markers lie in its text and in its fill), strip the inline style.
colorize(svg, color) ==
    [svg EXCEPT !.equation = replaceAll(@, 1, markup(svg),
                                        Len(markupHead(svg)), color),
                !.fill = replaceAll(@, 1, markup(svg),
                                    Len(markupBefore(svg)), color),
                !.style = <<>>]

----------------------------------------------------------------------------
(* The Rasterizer (magick.js), as the program sees it. *)

\* Natural size of the markup in pixels at zoom 1: 9 per character, 9 high.
IntrinsicWidth(svg) == 9 * Len(svg.equation)
IntrinsicHeight(svg) == 9

\* rsvgConvert(svg, {zoom}): the raster at the natural size times the zoom.
rsvgConvertZoom(svg, zoom) ==
    [svg |-> svg,
     width |-> CeilDiv(IntrinsicWidth(svg) * zoom.num, zoom.den),
     height |-> CeilDiv(IntrinsicHeight(svg) * zoom.num, zoom.den)]

\* rsvgConvert(svg, {width, height}): the raster at exactly that size.
rsvgConvertSize(svg, width, height) ==
    [svg |-> svg, width |-> width, height |-> height]

\* pngDimensions(png)
pngDimensions(png) == [width |-> png.width, height |-> png.height]

\* pngFitTo(png, filename, width, height, {center}): the image it writes.
pngFitTo(png, width, height, center) ==
    [png |-> png, width |-> width, height |-> height, center |-> center]

NoPNG == [svg |-> NoSvg, width |-> 0, height |-> 0]

\* The messages of the failures of the three tools.
RsvgFailure == "rsvg-convert failed"
DimensionsFailure == "identify failed"
FitFailure == "convert failed"

\* sha256Hash(equation).slice(0, 7) (line 173), for the texts of the model.
sha256Prefix(equation) ==
    CASE equation = <<"a">> -> "ca97811"
      [] equation = <<"{">> -> "021fb59"
      [] equation = <<"a", "_", "b">> -> "648fa9b"
      [] equation = <<"a", "_", "b", "_", "1", "*", "1", "x", "1", "*", "1", "_", "0">>
           -> "4fa85bc"
      [] equation = <<"v", "a", "l", "u", "e", "O", "f">>
           -> "96d870b"
      [] OTHER -> "0000000"

----------------------------------------------------------------------------
(* Sizing (lines 147-175). *)

\* zoomFor without the dynamic scale.
zoomForUnscaled(cHeight, dScale, iScale) ==
    [num |-> 10 * cHeight * iScale, den |-> 96]

\* line 152: 10 * dynamicScale * cHeight * internalScale / 96, as a fraction.
zoomFor(cHeight, dScale, iScale) ==
    [num |-> 10 * dScale * cHeight * iScale, den |-> 96]

NoZoom == [num |-> 0, den |-> 96]

\* physical without the oversampling factor.
physicalUnscaled(cells, cell, iScale) == cells * cell

\* lines 164-165 and 167-168: cells * cell size * internalScale.
physical(cells, cell, iScale) == cells * cell * iScale

\* fitCells without Math.max: the natural span alone.
fitCellsNatural(cells, png, cell, iScale) == CeilDiv(png, iScale * cell)

\* lines 157-162: Math.max(cells, Math.ceil((png / internalScale) / cell)).
fitCells(cells, png, cell, iScale) == Max(cells, CeilDiv(png, iScale * cell))

\* lines 173-175
filenameFor(equation, iWidth, iHeight) ==
    IMG_DIR \o "/" \o sha256Prefix(equation) \o "_" \o ToString(iWidth)
        \o "x" \o ToString(iHeight) \o ".png"

----------------------------------------------------------------------------
(* Runs of processEquation. *)

\* The value of `await equationToSVG(equation)` not yet delivered.
NoResult == [pending |-> TRUE]

\* A run at its start: the parameters of processEquation and its locals.
\* The other fields record its history: caught is the message the catch of
\* line 197 received ("" if none); called, the collaborators it has invoked;
\* sizedScale and zoomScale, the internalScale read by lines 164-168 and by
\* line 152.
NewTask(identifier, r) ==
    [identifier |-> identifier, request |-> r, pc |-> "start",
     result |-> NoResult, svg |-> NoSvg, zoom |-> NoZoom, basePNG |-> NoPNG,
     width |-> r.width, height |-> r.height, iWidth |-> 0, iHeight |-> 0,
     filename |-> "", caught |-> "", called |-> {},
     sizedScale |-> 0, zoomScale |-> 0]

\* One step of a run: the run after the step, what the step wrote, and the
\* state of the process after it.
Step(task, out) == [task |-> task, out |-> out, proc |-> "running"]

\* catch writing nothing: the failure is swallowed.
catchSilently(task, message) ==
    Step([task EXCEPT !.pc = "done", !.caught = message], <<>>)

\* No catch: the rejection is unhandled, which ends the process.
catchMissing(task, message) ==
    [task |-> [task EXCEPT !.pc = "done", !.caught = message], out |-> <<>>,
     proc |-> "crashed"]

\* lines 197-199: a rejected run writes the error response.
catch(task, message) ==
    Step([task EXCEPT !.pc = "done", !.caught = message],
         <<writeError(task.identifier, message)>>)

\* A return of processEquation after writing `response`.
return(task, response) == Step([task EXCEPT !.pc = "done"], <<response>>)

\* inSvgCache finding nothing that was stored.
inSvgCacheInheritedOnly(equation) == equation \in ObjectPrototypeKeys

\* line 88: equation in svgCache
inSvgCache(equation) ==
    equation \in DOMAIN svgCache \/ equation \in ObjectPrototypeKeys

\* line 89: svgCache[equation]; an inherited property is a function, which
\* has neither svg nor error.
svgCacheGet(equation) ==
    IF equation \in DOMAIN svgCache
    THEN svgCache[equation]
    ELSE [inherited |-> equation]

\* afterSVG without the return of line 141: after writing the error the run
\* goes on to line 143, where svg.replace throws, and the catch writes again.
afterSVGWithoutReturn(task, result, iScale, dScale) ==
    IF ~("svg" \in DOMAIN result) /\ "error" \in DOMAIN result
    THEN Step([task EXCEPT !.pc = "done", !.result = result,
                           !.caught = TypeErrorMessage],
              <<writeError(task.identifier, result.error),
                writeError(task.identifier, TypeErrorMessage)>>)
    ELSE Step([task EXCEPT !.pc = "rsvgConvert", !.result = result,
                           !.called = @ \cup {"rsvgConvert"}], <<>>)

\* lines 140-171: processEquation from the value of equationToSVG to its
\* call of rsvgConvert, under the scales in force.
afterSVG(task, result, iScale, dScale) ==
    LET r == task.request IN
    IF ~("svg" \in DOMAIN result)
    THEN IF "error" \in DOMAIN result
         THEN return([task EXCEPT !.result = result],
                     writeError(task.identifier, result.error))
         ELSE catch([task EXCEPT !.result = result], TypeErrorMessage)
    ELSE LET svg == colorize(result.svg, r.color) IN
         IF isDynamic(r.flags)
         THEN Step([task EXCEPT !.pc = "rsvgConvert", !.result = result,
                                !.svg = svg,
                                !.called = @ \cup {"rsvgConvert"},
                                !.zoom = zoomFor(r.cellHeight, dScale, iScale),
                                !.zoomScale = iScale], <<>>)
         ELSE Step([task EXCEPT !.pc = "rsvgConvert", !.result = result,
                                !.svg = svg,
                                !.called = @ \cup {"rsvgConvert"},
                                !.iWidth = physical(r.width, r.cellWidth, iScale),
                                !.iHeight = physical(r.height, r.cellHeight, iScale),
                                !.sizedScale = iScale], <<>>)

\* lines 173-177: the filename, then the call of pngFitTo.
callFit(task) ==
    [task EXCEPT !.pc = "pngFitTo",
                 !.called = @ \cup {"pngFitTo"},
                 !.filename = filenameFor(task.request.equation,
                                          task.iWidth, task.iHeight)]

\* lines 153-155 and 170-177: processEquation from the raster of rsvgConvert
\* to its next call.
afterRsvg(task) ==
    IF isDynamic(task.request.flags)
    THEN Step([task EXCEPT !.pc = "pngDimensions",
                           !.called = @ \cup {"pngDimensions"},
                           !.basePNG = rsvgConvertZoom(task.svg, task.zoom)],
              <<>>)
    ELSE Step(callFit([task EXCEPT
                 !.basePNG = rsvgConvertSize(task.svg, task.iWidth, task.iHeight)]),
              <<>>)

\* lines 155-177: processEquation from the dimensions of the raster to its
\* call of pngFitTo, under the internalScale in force.
afterDimensions(task, iScale) ==
    LET r == task.request
        png == pngDimensions(task.basePNG)
        width == fitCells(task.width, png.width, r.cellWidth, iScale)
        height == fitCells(task.height, png.height, r.cellHeight, iScale)
    IN Step(callFit([task EXCEPT
                !.width = width, !.height = height,
                !.iWidth = physical(width, r.cellWidth, iScale),
                !.iHeight = physical(height, r.cellHeight, iScale),
                !.sizedScale = iScale]), <<>>)

\* line 179: the descriptor of a finished render.
equationObj(task) ==
    [equation |-> task.request.equation, filename |-> task.filename,
     width |-> task.width, height |-> task.height]

\* lines 130-139 and 88-92: processEquation from its start to its first
\* suspension, or to its return.
start(task) ==
    LET r == task.request
        key == equation_key(r)
    IN IF IsEmptyEquation(r.equation)
       THEN return(task, writeError(task.identifier, "Empty equation"))
       ELSE IF key \in DOMAIN equationMap
       THEN return(task, write(task.identifier, equationMap[key].width,
                               equationMap[key].height,
                               equationMap[key].filename))
       ELSE IF inSvgCache(r.equation)
       THEN Step([task EXCEPT !.pc = "equationToSVG",
                              !.result = svgCacheGet(r.equation)], <<>>)
       ELSE Step([task EXCEPT !.pc = "tex2svgPromise",
                              !.called = @ \cup {"tex2svgPromise"}], <<>>)

\* lines 93-100: what equationToSVG stores and returns once MathJax settled
\* with markup or with a MathError.
typesetResult(equation) ==
    IF IsMalformed(equation)
    THEN [error |-> MathErrorMessage(equation)]
    ELSE [svg |-> tex2svg(equation)]

\* f with f[k] = v
Put(f, k, v) == [x \in DOMAIN f \cup {k} |-> IF x = k THEN v ELSE f[x]]

----------------------------------------------------------------------------
(* The state machine. *)

Init ==
    /\ equations = <<>>
    /\ equationMap = <<>>
    /\ svgCache = <<>>
    /\ internalScale = 1
    /\ dynamicScale = 1
    /\ tasks = <<>>
    /\ stdout = <<>>
    /\ files = <<>>
    /\ dirExists = FALSE
    /\ proc = "starting"

\* lines 39-46 and 210: fs.mkdirSync fails with an error other than EEXIST
\* (EACCES, say), the wrapper rethrows it and main throws before the exit
\* hook is registered: the process ends without the directory.
mainMkdirFailed ==
    /\ proc = "starting"
    /\ proc' = "aborted"
    /\ UNCHANGED <<equations, equationMap, svgCache, internalScale,
                   dynamicScale, tasks, stdout, files, dirExists>>

\* lines 39-46: fs.mkdirSync makes the directory, or throws EEXIST because a
\* file that is no directory has the name, which the wrapper swallows: main
\* goes on, with the directory or without it.
mkdirSync == dirExists' \in BOOLEAN

\* main, lines 210-219: the preamble cannot be read and process.exit(1) ends
\* the process after mkdirSync and before the exit hook is registered
\* (line 223): nothing is cleaned up.
mainPreambleUnreadable ==
    /\ proc = "starting"
    /\ mkdirSync
    /\ proc' = "aborted"
    /\ UNCHANGED <<equations, equationMap, svgCache, internalScale,
                   dynamicScale, tasks, stdout, files>>

\* main, lines 210-235, its synchronous turn: mkdirSync returns, the
\* preamble is read, the exit hook registered and mathjax.init called.  main
\* returns with the initialisation pending and the reader not listening.
main ==
    /\ proc = "starting"
    /\ mkdirSync
    /\ proc' = "initializing"
    /\ UNCHANGED <<equations, equationMap, svgCache, internalScale,
                   dynamicScale, tasks, stdout, files>>

\* lines 243-245, a later turn: mathjax.init is fulfilled and the reader
\* listens.
mainListen ==
    /\ proc = "initializing"
    /\ proc' = "running"
    /\ UNCHANGED <<equations, equationMap, svgCache, internalScale,
                   dynamicScale, tasks, stdout, files, dirExists>>

\* The filenames of the cleanup list.
cleanupNames == {equations[k].filename : k \in DOMAIN equations}

\* lines 223-233: the exit hook.  Each listed file is unlinked, failures
\* ignored; rmdirSync removes the directory only if it is empty.
onExit ==
    /\ files' = [f \in DOMAIN files \ cleanupNames |-> files[f]]
    /\ dirExists' = (DOMAIN files \ cleanupNames # {})

\* lines 246-249, a later turn: mathjax.init is rejected and process.exit(1)
\* ends the process; the exit hook, registered at line 223, runs.
mainInitFailed ==
    /\ proc = "initializing"
    /\ proc' = "exited"
    /\ onExit
    /\ UNCHANGED <<equations, equationMap, svgCache, internalScale,
                   dynamicScale, tasks, stdout>>

\* The effect of one step of run i on tasks, stdout and proc.
Apply(i, step) ==
    /\ tasks' = [tasks EXCEPT ![i] = step.task]
    /\ stdout' = stdout \o step.out
    /\ proc' = step.proc

\* Render awaiting the runs in flight: a request is taken only when every
\* earlier one has returned.
RenderBlocking(r, max) ==
    /\ proc = "running"
    /\ Len(tasks) < max
    /\ \A i \in DOMAIN tasks : tasks[i].pc = "done"
    /\ LET step == start(NewTask(ToString(Len(tasks) + 1), r))
       IN /\ tasks' = Append(tasks, step.task)
          /\ stdout' = stdout \o step.out
          /\ proc' = step.proc
    /\ UNCHANGED <<equations, equationMap, svgCache, internalScale,
                   dynamicScale, files, dirExists>>

\* processAll, lines 187-199: a render request, while fewer than max were sent.
\* The client numbers its requests.
Render(r, max) ==
    /\ proc = "running"
    /\ Len(tasks) < max
    /\ LET step == start(NewTask(ToString(Len(tasks) + 1), r))
       IN /\ tasks' = Append(tasks, step.task)
          /\ stdout' = stdout \o step.out
          /\ proc' = step.proc
    /\ UNCHANGED <<equations, equationMap, svgCache, internalScale,
                   dynamicScale, files, dirExists>>

\* processAll, lines 200-202
Dscale(scale) ==
    /\ proc = "running"
    /\ dynamicScale' = scale
    /\ UNCHANGED <<equations, equationMap, svgCache, internalScale, tasks,
                   stdout, files, dirExists, proc>>

\* Iscale invalidating the rendered-image cache, as the FIXME of line 204 asks.
IscaleInvalidating(scale) ==
    /\ proc = "running"
    /\ internalScale' = scale
    /\ equationMap' = <<>>
    /\ UNCHANGED <<equations, svgCache, dynamicScale, tasks,
                   stdout, files, dirExists, proc>>

\* processAll, lines 203-205
Iscale(scale) ==
    /\ proc = "running"
    /\ internalScale' = scale
    /\ UNCHANGED <<equations, equationMap, svgCache, dynamicScale, tasks,
                   stdout, files, dirExists, proc>>

\* lines 139-171: the value equationToSVG returned, from the cache (line 89)
\* or freshly stored (lines 93 and 97), is delivered to processEquation, which
\* runs to its next suspension or return under the scales now in force.
SvgCached(i) ==
    /\ proc = "running"
    /\ tasks[i].pc = "equationToSVG"
    /\ Apply(i, afterSVG(tasks[i], tasks[i].result, internalScale, dynamicScale))
    /\ UNCHANGED <<equations, equationMap, svgCache, internalScale,
                   dynamicScale, files, dirExists>>

\* lines 92-100: MathJax settles with markup or a MathError; equationToSVG
\* stores the result and returns it.  processEquation, suspended at line 139,
\* takes it in a later step (SvgCached).
Typeset(i) ==
    /\ proc = "running"
    /\ tasks[i].pc = "tex2svgPromise"
    /\ LET equation == tasks[i].request.equation
           result == typesetResult(equation)
       IN /\ svgCache' = Put(svgCache, equation, result)
          /\ tasks' = [tasks EXCEPT ![i].pc = "equationToSVG",
                                    ![i].result = result]
    /\ UNCHANGED <<equations, equationMap, internalScale, dynamicScale,
                   stdout, files, dirExists, proc>>

\* TypesetFault without the test of line 97: every error is stored as if it
\* were a MathError, and returned.
TypesetFaultStored(i) ==
    /\ proc = "running"
    /\ tasks[i].pc = "tex2svgPromise"
    /\ svgCache' = Put(svgCache, tasks[i].request.equation,
                       [error |-> TypesetterFault])
    /\ tasks' = [tasks EXCEPT ![i].pc = "equationToSVG",
                              ![i].result = [error |-> TypesetterFault]]
    /\ UNCHANGED <<equations, equationMap, internalScale, dynamicScale,
                   stdout, files, dirExists, proc>>

\* lines 96-105, then 197-199: MathJax fails with another error.
TypesetFault(i) ==
    /\ proc = "running"
    /\ tasks[i].pc = "tex2svgPromise"
    /\ Apply(i, catch(tasks[i], TypesetterFault))
    /\ UNCHANGED <<equations, equationMap, svgCache, internalScale,
                   dynamicScale, files, dirExists>>

\* lines 153 and 170 return the raster.
Rsvg(i) ==
    /\ proc = "running"
    /\ tasks[i].pc = "rsvgConvert"
    /\ Apply(i, afterRsvg(tasks[i]))
    /\ UNCHANGED <<equations, equationMap, svgCache, internalScale,
                   dynamicScale, files, dirExists>>

\* lines 153 and 170 fail.
RsvgFail(i) ==
    /\ proc = "running"
    /\ tasks[i].pc = "rsvgConvert"
    /\ Apply(i, catch(tasks[i], RsvgFailure))
    /\ UNCHANGED <<equations, equationMap, svgCache, internalScale,
                   dynamicScale, files, dirExists>>

\* line 155 returns the dimensions.
Dimensions(i) ==
    /\ proc = "running"
    /\ tasks[i].pc = "pngDimensions"
    /\ Apply(i, afterDimensions(tasks[i], internalScale))
    /\ UNCHANGED <<equations, equationMap, svgCache, internalScale,
                   dynamicScale, files, dirExists>>

\* line 155 fails.
DimensionsFail(i) ==
    /\ proc = "running"
    /\ tasks[i].pc = "pngDimensions"
    /\ Apply(i, catch(tasks[i], DimensionsFailure))
    /\ UNCHANGED <<equations, equationMap, svgCache, internalScale,
                   dynamicScale, files, dirExists>>

\* line 177, in the fit tool: the image is written to the file, which takes
\* the directory of line 16.
FitWrite(i) ==
    /\ proc = "running"
    /\ dirExists
    /\ tasks[i].pc = "pngFitTo"
    /\ files' = Put(files, tasks[i].filename,
                    pngFitTo(tasks[i].basePNG, tasks[i].iWidth,
                             tasks[i].iHeight, isCenter(tasks[i].request.flags)))
    /\ tasks' = [tasks EXCEPT ![i].pc = "pngFitTo written"]
    /\ UNCHANGED <<equations, equationMap, svgCache, internalScale,
                   dynamicScale, stdout, dirExists, proc>>

\* line 177 fails: nothing is written.
FitFail(i) ==
    /\ proc = "running"
    /\ tasks[i].pc = "pngFitTo"
    /\ Apply(i, catch(tasks[i], FitFailure))
    /\ UNCHANGED <<equations, equationMap, svgCache, internalScale,
                   dynamicScale, files, dirExists>>

\* Fit without the push of line 180: the descriptor is cached and reported
\* but not listed for cleanup.
FitUnlisted(i) ==
    /\ proc = "running"
    /\ tasks[i].pc = "pngFitTo written"
    /\ equationMap' = Put(equationMap, equation_key(tasks[i].request),
                          equationObj(tasks[i]))
    /\ Apply(i, return(tasks[i], write(tasks[i].identifier, tasks[i].width,
                                       tasks[i].height, tasks[i].filename)))
    /\ UNCHANGED <<equations, svgCache, internalScale, dynamicScale, files,
                   dirExists>>

\* lines 179-183: pngFitTo returned.
Fit(i) ==
    /\ proc = "running"
    /\ tasks[i].pc = "pngFitTo written"
    /\ equations' = Append(equations, equationObj(tasks[i]))
    /\ equationMap' = Put(equationMap, equation_key(tasks[i].request),
                          equationObj(tasks[i]))
    /\ Apply(i, return(tasks[i], write(tasks[i].identifier, tasks[i].width,
                                       tasks[i].height, tasks[i].filename)))
    /\ UNCHANGED <<svgCache, internalScale, dynamicScale, files, dirExists>>

\* The process ends (a signal, or the client closing the pipe) once the exit
\* hook is registered, the initialisation pending or done: the hook of lines
\* 223-233 runs.
Exit ==
    /\ proc \in {"initializing", "running"}
    /\ proc' = "exited"
    /\ onExit
    /\ UNCHANGED <<equations, equationMap, svgCache, internalScale,
                   dynamicScale, tasks, stdout>>

----------------------------------------------------------------------------
(* The requests of the model, and its behaviours. *)

\* The render requests the client may send: fixed and dynamic renders of one
\* text, the same render in another color, a render with four different
\* sizes and a color that is a replacement pattern, a malformed text, a text
\* that names a property of Object.prototype, a blank text and the empty text.
Requests ==
    { Req(<<"a">>, 1, 1, 1, 1, 0, <<"c">>),
      Req(<<"a">>, 1, 1, 1, 1, 1, <<"c">>),
      Req(<<"a">>, 1, 1, 1, 1, 0, <<"d">>),
      Req(<<"a">>, 2, 3, 1, 2, 2, <<"$", "'">>),
      Req(<<"{">>, 1, 1, 1, 1, 0, <<"c">>),
      Req(<<"v", "a", "l", "u", "e", "O", "f">>, 1, 1, 1, 1, 0, <<"c">>),
      Req(<<" ", "\f", "\\u2028">>, 1, 1, 1, 1, 0, <<"c">>),
      Req(<<>>, 1, 1, 1, 1, 0, <<"c">>) }

\* A render request of the pool, while fewer than max were sent.
Dispatch(pool, max) == \E r \in pool : Render(r, max)

\* The steps of the runs in flight.
RunStep ==
    \E i \in DOMAIN tasks :
        \/ SvgCached(i)
        \/ Typeset(i)
        \/ TypesetFault(i)
        \/ Rsvg(i)
        \/ RsvgFail(i)
        \/ Dimensions(i)
        \/ DimensionsFail(i)
        \/ FitWrite(i)
        \/ FitFail(i)
        \/ Fit(i)

\* The turns of main and of the callbacks it registers on mathjax.init.
Startup ==
    \/ mainMkdirFailed
    \/ mainPreambleUnreadable
    \/ main
    \/ mainListen
    \/ mainInitFailed

\* The scale-update requests.
ScaleUpdate == \E scale \in 1..MaxScale : Dscale(scale) \/ Iscale(scale)

Next ==
    \/ Startup
    \/ Dispatch(Requests, MaxRequests)
    \/ RunStep
    \/ ScaleUpdate
    \/ Exit

Spec == Init /\ [][Next]_vars

\* The service while it is not shut down, every call into a collaborator
\* eventually returning or failing.
NextLive ==
    \/ main
    \/ mainListen
    \/ Dispatch(Requests, MaxRequests)
    \/ RunStep
    \/ ScaleUpdate

LiveSpec == Init /\ [][NextLive]_vars /\ WF_vars(RunStep)

\* One render request, sent again and again.
RepeatRequests == { Req(<<"a">>, 1, 1, 1, 1, 0, <<"c">>) }

\* The service under MaxRepeats requests drawn from RepeatRequests.
NextRepeat ==
    \/ Startup
    \/ Dispatch(RepeatRequests, MaxRepeats)
    \/ RunStep
    \/ ScaleUpdate
    \/ Exit

SpecRepeat == Init /\ [][NextRepeat]_vars

\* Two requests whose seven fields differ and whose keys are the same string:
\* the first text is well formed, the second gives one base two subscripts.
KeyRequests ==
    { Req(<<"a", "_", "b">>, 1, 1, 1, 1, 0,
          <<"1", "*", "1", "x", "1", "*", "1", "_", "0", "_", "c">>),
      Req(<<"a", "_", "b", "_", "1", "*", "1", "x", "1", "*", "1", "_", "0">>,
          1, 1, 1, 1, 0, <<"c">>) }

\* The service under three requests drawn from KeyRequests.
NextKeys ==
    \/ Startup
    \/ Dispatch(KeyRequests, 3)
    \/ RunStep
    \/ ScaleUpdate
    \/ Exit

SpecKeys == Init /\ [][NextKeys]_vars

\* Cell sizes and spans of the sizing requests: 1..MaxCells.
MaxCells == 2

\* One text in every combination of cell size, span and flags.
SizingRequests ==
    { Req(<<"a">>, cW, cH, w, h, f, <<"c">>) :
        cW \in 1..MaxCells, cH \in 1..MaxCells, w \in 1..MaxCells,
        h \in 1..MaxCells, f \in 0..3 }

\* The service under one request drawn from SizingRequests.
NextSizing ==
    \/ Startup
    \/ Dispatch(SizingRequests, 1)
    \/ RunStep
    \/ ScaleUpdate
    \/ Exit

SpecSizing == Init /\ [][NextSizing]_vars

----------------------------------------------------------------------------
(* Reading the history of a behaviour. *)

\* The positions in stdout of the responses to run i.
Responses(i) ==
    {k \in DOMAIN stdout : stdout[k].identifier = tasks[i].identifier}

\* The response to run i, which has one.
Response(i) == stdout[CHOOSE k \in Responses(i) : TRUE]

\* This step dispatches a render request.
IsDispatch == Len(tasks') = Len(tasks) + 1

\* The run a dispatching step creates, as the step leaves it.
Dispatched == tasks'[Len(tasks')]

\* A run answered from the rendered-image cache.
IsCacheHit(i) ==
    /\ tasks[i].pc = "done"
    /\ tasks[i].called = {}
    /\ Responses(i) # {}
    /\ Response(i).type = "image"

----------------------------------------------------------------------------
(* C1 *)

\* C1, for a second request sent after the first was answered with an
\* image: a render request dispatched when a request with the same seven
\* fields has its success response written is answered in the dispatching
\* step, invokes no collaborator, and its response carries the width, height
\* and filename of that response, whatever was requested in between.
C1_SameAsFirst ==
    [][\A i \in DOMAIN tasks :
          (/\ IsDispatch
           /\ tasks[i].request = Dispatched.request
           /\ Responses(i) # {}
           /\ Response(i).type = "image")
          => /\ Dispatched.pc = "done"
             /\ Dispatched.called = {}
             /\ stdout' = Append(stdout,
                                 write(Dispatched.identifier,
                                       Response(i).width, Response(i).height,
                                       Response(i).data))]_vars

----------------------------------------------------------------------------
(* C2 *)

\* C2: every dispatched render request is eventually answered.
C2_EventuallyAnswered ==
    \A n \in 1..MaxRequests :
        (Len(tasks) >= n)
            ~> (\E k \in DOMAIN stdout : stdout[k].identifier = ToString(n))

\* C2's case: all requests were answered, one by each path: an error for a
\* failed tool and a success.
C2_Witness ==
    /\ Len(tasks) = MaxRequests
    /\ \A i \in DOMAIN tasks : Responses(i) # {}
    /\ \E i \in DOMAIN tasks : tasks[i].caught = FitFailure
    /\ \E i \in DOMAIN tasks : Response(i).type = "image"

----------------------------------------------------------------------------
(* C3 *)

\* C3: no dispatched render request has more than one response.
C3_AtMostOneResponse ==
    \A i \in DOMAIN tasks : Cardinality(Responses(i)) <= 1

\* C3's case: the catch of the dispatch boundary ran after writeError threw
\* on an undefined message, and the run has one response.
C3_Witness ==
    \E i \in DOMAIN tasks :
        /\ tasks[i].caught = TypeErrorMessage
        /\ Cardinality(Responses(i)) = 1

----------------------------------------------------------------------------
(* C4 *)

\* The messages of the failures of the collaborators.
ToolFailures == {TypesetterFault, RsvgFailure, DimensionsFailure, FitFailure}

\* The failure a run suspended at pc can meet: that of the collaborator it
\* waits for, or the TypeError of line 141 on a value without svg and error.
FailureAt(pc) ==
    CASE pc = "tex2svgPromise" -> TypesetterFault
      [] pc = "rsvgConvert" -> RsvgFailure
      [] pc = "pngDimensions" -> DimensionsFailure
      [] pc = "pngFitTo" -> FitFailure
      [] OTHER -> TypeErrorMessage

\* C4: a step in which a run fails writes the error response carrying the
\* failure's message and leaves the process running; the process never dies
\* of a failure, and every failed run has that response.
C4_FailuresBecomeResponses ==
    /\ [](proc # "crashed")
    /\ [](\A i \in DOMAIN tasks :
             tasks[i].caught # ""
                => /\ tasks[i].pc = "done"
                   /\ Responses(i) # {}
                   /\ Response(i) = writeError(tasks[i].identifier,
                                               tasks[i].caught))
    /\ [][\A i \in DOMAIN tasks :
             (tasks[i].caught = "" /\ tasks'[i].caught # "")
                => /\ tasks'[i].caught = FailureAt(tasks[i].pc)
                   /\ stdout' = Append(stdout,
                                       writeError(tasks[i].identifier,
                                                  FailureAt(tasks[i].pc)))
                   /\ proc' = "running"]_vars

\* C4's case: a run failed in the Rasterizer, and a request dispatched after
\* it was served with an image.
C4_Witness ==
    \E i, j \in DOMAIN tasks :
        /\ i < j
        /\ tasks[i].caught = RsvgFailure
        /\ Response(i).data = RsvgFailure
        /\ tasks[j].pc = "done"
        /\ Responses(j) # {}
        /\ Response(j).type = "image"

----------------------------------------------------------------------------
(* C5 *)

\* A text made of whitespace only; the empty text is one.
AllWhitespace(equation) ==
    \A k \in DOMAIN equation : equation[k] \in Whitespace

\* C5: a request with an empty or whitespace-only text is answered in the
\* dispatching step with the error 'Empty equation' (length 14, width and
\* height 0), invokes no collaborator, and leaves both caches and the
\* cleanup list unchanged.
C5_EmptyEquation ==
    /\ [](\A i \in DOMAIN tasks :
             AllWhitespace(tasks[i].request.equation)
                => /\ tasks[i].pc = "done"
                   /\ tasks[i].called = {}
                   /\ Responses(i) # {}
                   /\ Response(i).type = "error"
                   /\ Response(i).width = 0
                   /\ Response(i).height = 0
                   /\ Response(i).length = 14
                   /\ Response(i).data = "Empty equation"
                   /\ Response(i).chunk
                        = tasks[i].identifier \o ":error:0:0:14:Empty equation")
    /\ [][(IsDispatch /\ AllWhitespace(Dispatched.request.equation))
            => /\ Len(stdout') = Len(stdout) + 1
               /\ UNCHANGED <<svgCache, equationMap, equations>>]_vars

\* C5's case: a whitespace-only text and the empty text were both answered.
C5_Witness ==
    \E i, j \in DOMAIN tasks :
        /\ tasks[i].request.equation = <<" ", "\f", "\\u2028">>
        /\ tasks[j].request.equation = <<>>
        /\ Response(i).data = "Empty equation"
        /\ Response(j).data = "Empty equation"

----------------------------------------------------------------------------
(* C6 *)

\* C6: a render request dispatched after a request with the same text was
\* answered with a typesetting error invokes no collaborator and receives
\* the stored error; and a run that received a typesetting error is answered
\* with that error's message.
C6_TypesetErrorRepeats ==
    /\ [][IsDispatch =>
            \A i \in DOMAIN tasks :
                (/\ tasks[i].pc = "done"
                 /\ "error" \in DOMAIN tasks[i].result
                 /\ tasks[i].request.equation = Dispatched.request.equation)
                => /\ Dispatched.called = {}
                   /\ Dispatched.pc = "equationToSVG"
                   /\ Dispatched.result = tasks[i].result]_vars
    /\ [](\A i \in DOMAIN tasks :
             (tasks[i].pc = "done" /\ "error" \in DOMAIN tasks[i].result)
                => Response(i) = writeError(tasks[i].identifier,
                                            tasks[i].result.error))

----------------------------------------------------------------------------
(* C7 *)

\* The collaborator whose failure has this message.
FailedTool(message) ==
    CASE message = TypesetterFault -> "tex2svgPromise"
      [] message = RsvgFailure -> "rsvgConvert"
      [] message = DimensionsFailure -> "pngDimensions"
      [] message = FitFailure -> "pngFitTo"

\* A run that rendered its image and stored this descriptor.
StoredBy(i, obj) ==
    /\ tasks[i].pc = "done"
    /\ tasks[i].caught = ""
    /\ "pngFitTo" \in tasks[i].called
    /\ equationObj(tasks[i]) = obj

\* C7: no failure of a collaborator is stored.  The typeset cache holds no
\* failure message; every entry of the rendered-image cache and of the
\* cleanup list was stored by a run that succeeded; a failing step changes
\* neither cache nor the cleanup list; a request dispatched after a run with
\* the same parameters failed, its key not being cached, runs the pipeline
\* again, and invokes the Typesetter again if that was what failed and the
\* text is not cached; and a response carrying a failure message is the
\* failure of a collaborator the answered run invoked itself.
C7_FailuresNotCached ==
    /\ [](\A text \in DOMAIN svgCache :
             "error" \in DOMAIN svgCache[text]
                => svgCache[text].error \notin ToolFailures)
    /\ [](\A key \in DOMAIN equationMap :
             \E i \in DOMAIN tasks :
                /\ StoredBy(i, equationMap[key])
                /\ equation_key(tasks[i].request) = key)
    /\ [](\A n \in DOMAIN equations :
             \E i \in DOMAIN tasks : StoredBy(i, equations[n]))
    /\ [][\A i \in DOMAIN tasks :
             (tasks[i].caught = "" /\ tasks'[i].caught # "")
                => UNCHANGED <<svgCache, equationMap, equations>>]_vars
    /\ [][IsDispatch =>
            \A i \in DOMAIN tasks :
                (/\ tasks[i].caught \in ToolFailures
                 /\ tasks[i].request = Dispatched.request
                 /\ equation_key(Dispatched.request) \notin DOMAIN equationMap)
                => /\ Dispatched.pc \in {"tex2svgPromise", "equationToSVG"}
                   /\ (/\ tasks[i].caught = TypesetterFault
                       /\ Dispatched.request.equation \notin DOMAIN svgCache)
                      => "tex2svgPromise" \in Dispatched.called]_vars
    /\ [](\A i \in DOMAIN tasks :
             (/\ tasks[i].pc = "done"
              /\ Responses(i) # {}
              /\ Response(i).data \in ToolFailures)
                => /\ tasks[i].caught = Response(i).data
                   /\ FailedTool(Response(i).data) \in tasks[i].called)

\* C7's case: after a run failed in the Typesetter and was answered, a
\* request with the same parameters invoked the Typesetter again, and no
\* cache or cleanup entry exists.
C7_Witness ==
    \E i, j \in DOMAIN tasks :
        /\ i < j
        /\ tasks[i].request = tasks[j].request
        /\ tasks[i].caught = TypesetterFault
        /\ Response(i).data = TypesetterFault
        /\ "tex2svgPromise" \in tasks[j].called
        /\ "rsvgConvert" \in tasks[j].called
        /\ svgCache # <<>>
        /\ equationMap = <<>>
        /\ equations = <<>>

----------------------------------------------------------------------------
(* C8 *)

\* C8: once the process has exited, no file named in a success response
\* exists and the workspace directory does not exist.
C8_CleanAfterExit ==
    proc = "exited"
        => /\ \A k \in DOMAIN stdout :
                stdout[k].type = "image" => stdout[k].data \notin DOMAIN files
           /\ ~dirExists

----------------------------------------------------------------------------
(* C9 *)

\* C9: requests whose seven fields differ have different keys, and a request
\* answered from the rendered-image cache receives a descriptor stored by a
\* run with the same seven fields.
C9_KeyInjective ==
    /\ \A i, j \in DOMAIN tasks :
          equation_key(tasks[i].request) = equation_key(tasks[j].request)
              => tasks[i].request = tasks[j].request
    /\ \A j \in DOMAIN tasks :
          IsCacheHit(j)
              => \E i \in DOMAIN tasks :
                    /\ tasks[i].request = tasks[j].request
                    /\ StoredBy(i, [equation |-> tasks[j].request.equation,
                                    filename |-> Response(j).data,
                                    width |-> Response(j).width,
                                    height |-> Response(j).height])

----------------------------------------------------------------------------
(* C10 *)

\* The physical width and height of a fixed-mode request under a scale.
ExpectedWidth(r, scale) == r.width * r.cellWidth * scale
ExpectedHeight(r, scale) == r.height * r.cellHeight * scale

\* C10: in fixed mode the sizing step computes width*cellWidth*internalScale
\* by height*cellHeight*internalScale from the internalScale in force at that
\* step; the raster returned by the Rasterizer was requested with exactly
\* these dimensions, the fit tool is called with them, and the filename
\* carries them.
C10_FixedPhysicalSize ==
    /\ [][\A i \in DOMAIN tasks :
             (/\ ~isDynamic(tasks[i].request.flags)
              /\ tasks[i].pc \in {"tex2svgPromise", "equationToSVG"}
              /\ tasks'[i].pc = "rsvgConvert")
                => /\ tasks'[i].sizedScale = internalScale
                   /\ tasks'[i].iWidth =
                          ExpectedWidth(tasks[i].request, internalScale)
                   /\ tasks'[i].iHeight =
                          ExpectedHeight(tasks[i].request, internalScale)]_vars
    /\ [](\A i \in DOMAIN tasks :
             (~isDynamic(tasks[i].request.flags) /\ "rsvgConvert" \in tasks[i].called)
                => LET r == tasks[i].request
                       w == ExpectedWidth(r, tasks[i].sizedScale)
                       h == ExpectedHeight(r, tasks[i].sizedScale)
                   IN  /\ tasks[i].iWidth = w
                       /\ tasks[i].iHeight = h
                       /\ tasks[i].basePNG # NoPNG
                            => tasks[i].basePNG = rsvgConvertSize(tasks[i].svg, w, h)
                       /\ "pngFitTo" \in tasks[i].called
                            => tasks[i].filename =
                                   IMG_DIR \o "/" \o sha256Prefix(r.equation)
                                       \o "_" \o ToString(w) \o "x"
                                       \o ToString(h) \o ".png")
    /\ [][\A i \in DOMAIN tasks :
             (/\ ~isDynamic(tasks[i].request.flags)
              /\ tasks[i].pc = "pngFitTo"
              /\ tasks'[i].pc = "pngFitTo written")
                => LET r == tasks[i].request
                       f == files'[tasks[i].filename]
                   IN  /\ f.width = ExpectedWidth(r, tasks[i].sizedScale)
                       /\ f.height = ExpectedHeight(r, tasks[i].sizedScale)
                       /\ f.png = tasks[i].basePNG
                       /\ f.center = isCenter(r.flags)]_vars

\* C10's case: a fixed-mode request of 1 by 2 cells of 2 by 1 pixels, sized
\* under internalScale 2 after the scale changed, was rendered and answered.
C10_Witness ==
    \E i \in DOMAIN tasks :
        LET r == tasks[i].request IN
        /\ ~isDynamic(r.flags)
        /\ r.width = 1 /\ r.cellWidth = 2 /\ r.height = 2 /\ r.cellHeight = 1
        /\ tasks[i].sizedScale = 2
        /\ tasks[i].pc = "done"
        /\ Response(i).type = "image"
        /\ tasks[i].filename \in DOMAIN files
        /\ files[tasks[i].filename].width = 4
        /\ files[tasks[i].filename].height = 4
        /\ Response(i).data = IMG_DIR \o "/ca97811_4x4.png"

----------------------------------------------------------------------------
(* C11 *)

\* ceil(naturalCells) of a raster dimension: the least number of cells of
\* cell * scale pixels that cover png pixels.
NaturalCells(png, cell, scale) ==
    CHOOSE n \in 0..png : n * cell * scale >= png /\ (n = 0 \/ (n - 1) * cell * scale < png)

\* A run that rendered in dynamic mode and was answered with its image.
DynamicRendered(i) ==
    /\ isDynamic(tasks[i].request.flags)
    /\ tasks[i].pc = "done"
    /\ "pngFitTo" \in tasks[i].called
    /\ tasks[i].caught = ""

\* C11: the span a dynamic-mode render reports and stores is the larger of
\* the requested span and the natural span of the raster, rounded up, under
\* the internalScale in force at the sizing step; it is never smaller than
\* the requested span.
C11_DynamicSpan ==
    /\ [][\A i \in DOMAIN tasks :
             (tasks[i].pc = "pngDimensions" /\ tasks'[i].pc = "pngFitTo")
                => LET r == tasks[i].request
                       png == tasks[i].basePNG
                   IN  /\ tasks'[i].width =
                            Max(r.width, NaturalCells(png.width, r.cellWidth,
                                                      internalScale))
                       /\ tasks'[i].height =
                            Max(r.height, NaturalCells(png.height, r.cellHeight,
                                                       internalScale))]_vars
    /\ [](\A i \in DOMAIN tasks :
             DynamicRendered(i)
                => LET r == tasks[i].request
                       png == tasks[i].basePNG
                       w == Max(r.width, NaturalCells(png.width, r.cellWidth,
                                                      tasks[i].sizedScale))
                       h == Max(r.height, NaturalCells(png.height, r.cellHeight,
                                                       tasks[i].sizedScale))
                   IN  /\ Response(i).type = "image"
                       /\ Response(i).width = w
                       /\ Response(i).height = h
                       /\ w >= r.width
                       /\ h >= r.height)
    /\ [][\A i \in DOMAIN tasks :
             (/\ isDynamic(tasks[i].request.flags)
              /\ tasks[i].pc = "pngFitTo written"
              /\ tasks'[i].pc = "done")
                => LET r == tasks[i].request
                       png == tasks[i].basePNG
                       key == equation_key(r)
                   IN  /\ key \in DOMAIN equationMap'
                       /\ equationMap'[key].width =
                            Max(r.width, NaturalCells(png.width, r.cellWidth,
                                                      tasks[i].sizedScale))
                       /\ equationMap'[key].height =
                            Max(r.height, NaturalCells(png.height, r.cellHeight,
                                                       tasks[i].sizedScale))
                       /\ equationMap'[key].width >= r.width
                       /\ equationMap'[key].height >= r.height]_vars

\* C11's case: a dynamic-mode render whose natural width exceeds the
\* requested width and whose natural height is below the requested height.
C11_Witness ==
    \E i \in DOMAIN tasks :
        /\ DynamicRendered(i)
        /\ Response(i).width > tasks[i].request.width
        /\ Response(i).height = tasks[i].request.height
        /\ NaturalCells(tasks[i].basePNG.height, tasks[i].request.cellHeight,
                        tasks[i].sizedScale) < tasks[i].request.height
        /\ tasks[i].sizedScale # tasks[i].zoomScale

----------------------------------------------------------------------------
(* C12 *)

\* C12: the step of a dynamic-mode render that calls the Rasterizer computes
\* the zoom 10 * dynamicScale * cellHeight * internalScale / 96 from the
\* scales in force at that step, which is twice the zoom of dynamicScale 1
\* when dynamicScale is 2; and the raster the Rasterizer returns is the one
\* of that zoom.
C12_DynamicZoom ==
    /\ [][\A i \in DOMAIN tasks :
             (/\ isDynamic(tasks[i].request.flags)
              /\ tasks[i].pc \in {"tex2svgPromise", "equationToSVG"}
              /\ tasks'[i].pc = "rsvgConvert")
                => LET cH == tasks[i].request.cellHeight IN
                   /\ tasks'[i].zoom.num = 10 * dynamicScale * cH * internalScale
                   /\ tasks'[i].zoom.den = 96
                   /\ dynamicScale = 2 =>
                        /\ tasks'[i].zoom.num = 2 * (10 * 1 * cH * internalScale)
                        /\ tasks'[i].zoom.den = 96]_vars
    /\ [][\A i \in DOMAIN tasks :
             (/\ isDynamic(tasks[i].request.flags)
              /\ tasks[i].pc = "rsvgConvert"
              /\ tasks'[i].pc = "pngDimensions")
                => /\ tasks'[i].zoom = tasks[i].zoom
                   /\ tasks'[i].basePNG.svg = tasks[i].svg
                   /\ tasks'[i].basePNG.width =
                        CeilDiv(IntrinsicWidth(tasks[i].svg) * tasks[i].zoom.num, 96)
                   /\ tasks'[i].basePNG.height =
                        CeilDiv(IntrinsicHeight(tasks[i].svg) * tasks[i].zoom.num, 96)]_vars

\* C12's case: a dynamic-mode render of cell height 2 rasterized after
\* dynamicScale was set to 2, under internalScale 1: zoom 40/96, twice 20/96.
C12_Witness ==
    \E i \in DOMAIN tasks :
        /\ isDynamic(tasks[i].request.flags)
        /\ tasks[i].request.cellHeight = 2
        /\ tasks[i].zoomScale = 1
        /\ dynamicScale = 2
        /\ tasks[i].zoom = [num |-> 40, den |-> 96]
        /\ tasks[i].basePNG # NoPNG
        /\ tasks[i].basePNG.width = 4

----------------------------------------------------------------------------
(* C13 *)

\* C13: a step that changes one scale changes nothing else: not the other
\* scale, the caches, the cleanup list, the output, the runs or the files;
\* and a request whose key is in the rendered-image cache is answered in the
\* dispatching step with the stored entry, whatever the scales now are,
\* without a collaborator being invoked and with the caches left as they are.
C13_ScaleUpdateFrame ==
    /\ [][dynamicScale' # dynamicScale
            => UNCHANGED <<internalScale, svgCache, equationMap, equations,
                           stdout, tasks, files, dirExists, proc>>]_vars
    /\ [][internalScale' # internalScale
            => UNCHANGED <<dynamicScale, svgCache, equationMap, equations,
                           stdout, tasks, files, dirExists, proc>>]_vars
    /\ [][(IsDispatch /\ equation_key(Dispatched.request) \in DOMAIN equationMap
                      /\ ~IsEmptyEquation(Dispatched.request.equation))
            => LET e == equationMap[equation_key(Dispatched.request)] IN
               /\ Dispatched.pc = "done"
               /\ Dispatched.called = {}
               /\ stdout' = Append(stdout, write(Dispatched.identifier,
                                                 e.width, e.height, e.filename))
               /\ UNCHANGED <<svgCache, equationMap, equations, files>>]_vars

\* C13's case: an entry rendered under dynamicScale 1 and internalScale 1 is
\* returned to an identical request, unchanged, while both scales are 2.
C13_Witness ==
    \E i, j \in DOMAIN tasks :
        /\ i < j
        /\ tasks[i].request = tasks[j].request
        /\ DynamicRendered(i)
        /\ tasks[i].zoom.num = 10 * tasks[i].request.cellHeight
        /\ tasks[i].sizedScale = 1
        /\ IsCacheHit(j)
        /\ Response(j).width = Response(i).width
        /\ Response(j).height = Response(i).height
        /\ Response(j).data = Response(i).data
        /\ equationMap[equation_key(tasks[i].request)] = equationObj(tasks[i])
        /\ dynamicScale = 2
        /\ internalScale = 2

----------------------------------------------------------------------------
(* C14 *)

\* The image the fit tool wrote for run i.
Written(i) ==
    pngFitTo(tasks[i].basePNG, tasks[i].iWidth, tasks[i].iHeight,
             isCenter(tasks[i].request.flags))

\* C14: two runs that wrote the same path wrote the same content, and while
\* the process runs the file named by an entry of the rendered-image cache
\* holds the image written by the run that stored the entry.
C14_SamePathSameContent ==
    /\ \A i, j \in DOMAIN tasks :
          (/\ tasks[i].pc \in {"pngFitTo written", "done"}
           /\ tasks[j].pc \in {"pngFitTo written", "done"}
           /\ "pngFitTo" \in tasks[i].called
           /\ "pngFitTo" \in tasks[j].called
           /\ tasks[i].caught = ""
           /\ tasks[j].caught = ""
           /\ tasks[i].filename = tasks[j].filename)
          => Written(i) = Written(j)
    /\ \A i \in DOMAIN tasks :
          (/\ proc = "running"
           /\ StoredBy(i, equationObj(tasks[i]))
           /\ equation_key(tasks[i].request) \in DOMAIN equationMap
           /\ equationMap[equation_key(tasks[i].request)] = equationObj(tasks[i]))
          => /\ tasks[i].filename \in DOMAIN files
             /\ files[tasks[i].filename] = Written(i)

----------------------------------------------------------------------------
(* C15 *)

\* A run that went through the whole pipeline and was answered with its image.
Rendered(i) ==
    /\ tasks[i].pc = "done"
    /\ "pngFitTo" \in tasks[i].called
    /\ tasks[i].caught = ""

\* C15: two runs of the same request that both rendered have responses with
\* the same width, height and filename and stored the same descriptor, which
\* the rendered-image cache holds while the process runs.
C15_ConcurrentIdempotent ==
    \A i, j \in DOMAIN tasks :
        (/\ i < j
         /\ tasks[i].request = tasks[j].request
         /\ Rendered(i)
         /\ Rendered(j))
        => /\ Response(i).width = Response(j).width
           /\ Response(i).height = Response(j).height
           /\ Response(i).data = Response(j).data
           /\ equationObj(tasks[i]) = equationObj(tasks[j])
           /\ proc = "running"
                => equationMap[equation_key(tasks[i].request)]
                       = equationObj(tasks[j])

----------------------------------------------------------------------------
(* C16 *)

\* A run suspended in a call of the Typesetter, the Rasterizer or the fit tool.
Suspended(i) ==
    tasks[i].pc \in {"tex2svgPromise", "rsvgConvert", "pngDimensions",
                     "pngFitTo", "pngFitTo written"}

\* C16: while a run is suspended the service takes the next render request
\* and any scale update; a step that writes a response is the step of one run
\* returning, the response carries that run's identifier, and every other run
\* is left where it is; no two runs share an identifier.
C16_NoBlocking ==
    /\ [](\A i \in DOMAIN tasks :
             (proc = "running" /\ Suspended(i))
                => /\ Len(tasks) < MaxRequests
                        => \A r \in Requests : ENABLED Render(r, MaxRequests)
                   /\ \A scale \in 1..MaxScale :
                        ENABLED Dscale(scale) /\ ENABLED Iscale(scale))
    /\ [][stdout' # stdout
            => \E i \in DOMAIN tasks' :
                 /\ stdout' = Append(stdout, stdout'[Len(stdout')])
                 /\ stdout'[Len(stdout')].identifier = tasks'[i].identifier
                 /\ tasks'[i].pc = "done"
                 /\ i \in DOMAIN tasks => tasks[i].pc # "done"
                 /\ \A j \in DOMAIN tasks : j # i => tasks'[j] = tasks[j]]_vars
    /\ [](\A i, j \in DOMAIN tasks :
             tasks[i].identifier = tasks[j].identifier => i = j)

\* C16's case: the second request, a render, was dispatched after the first
\* and answered with its image while the first is still suspended in the
\* Rasterizer; the only response written carries the second's identifier.
C16_Witness ==
    /\ Len(tasks) = 2
    /\ tasks[1].pc = "rsvgConvert"
    /\ Responses(1) = {}
    /\ Rendered(2)
    /\ Len(stdout) = 1
    /\ stdout[1].identifier = tasks[2].identifier
    /\ stdout[1].type = "image"
    /\ stdout[1].data = tasks[2].filename

----------------------------------------------------------------------------
(* C17 *)

\* C17: a render request dispatched when the typeset cache holds a result
\* for its text does not invoke the Typesetter, whatever its sizes, flags and
\* color: unless it is answered from the rendered-image cache at once, it
\* takes the cached markup or error as its typeset result.  The Typesetter
\* is invoked by dispatching steps only.
C17_TypesetOncePerText ==
    /\ [][(IsDispatch /\ Dispatched.request.equation \in DOMAIN svgCache)
            => LET r == Dispatched.request IN
               /\ "tex2svgPromise" \notin Dispatched.called
               /\ \/ /\ equation_key(r) \in DOMAIN equationMap
                     /\ Dispatched.pc = "done"
                  \/ /\ equation_key(r) \notin DOMAIN equationMap
                     /\ Dispatched.pc = "equationToSVG"
                     /\ Dispatched.result = svgCache[r.equation]]_vars
    /\ [][\A i \in DOMAIN tasks :
             /\ tasks'[i].called \cap {"tex2svgPromise"}
                    = tasks[i].called \cap {"tex2svgPromise"}
             /\ (tasks[i].pc = "equationToSVG" /\ tasks'[i].pc # "equationToSVG")
                    => tasks'[i].result = tasks[i].result]_vars

\* C17's case: two renders of one text with different cell sizes, spans,
\* flags and color; the first invoked the Typesetter, the second rendered
\* from the cached markup without invoking it.
C17_Witness ==
    \E i, j \in DOMAIN tasks :
        /\ i < j
        /\ tasks[i].request.equation = tasks[j].request.equation
        /\ tasks[i].request.cellWidth # tasks[j].request.cellWidth
        /\ tasks[i].request.height # tasks[j].request.height
        /\ tasks[i].request.flags # tasks[j].request.flags
        /\ tasks[i].request.color # tasks[j].request.color
        /\ "tex2svgPromise" \in tasks[i].called
        /\ "tex2svgPromise" \notin tasks[j].called
        /\ Rendered(j)
        /\ tasks[j].result = svgCache[tasks[j].request.equation]

----------------------------------------------------------------------------
(* C18 *)

\* C18: every descriptor of the rendered-image cache is in the cleanup list;
\* the filename of every success response, of a fresh render or of a cache
\* hit, is the filename of an entry of the cleanup list; and a step only
\* appends to the cleanup list.
C18_CleanupCoversCache ==
    /\ [](\A key \in DOMAIN equationMap :
             \E n \in DOMAIN equations : equations[n] = equationMap[key])
    /\ [](\A k \in DOMAIN stdout :
             stdout[k].type = "image" => stdout[k].data \in cleanupNames)
    /\ [][/\ Len(equations') >= Len(equations)
          /\ \A n \in DOMAIN equations : equations'[n] = equations[n]]_vars

\* C18's case: a render listed for cleanup and reported, then an identical
\* request answered from the cache with the listed filename; the process has
\* exited and the list is as it was.
C18_Witness ==
    \E i, j \in DOMAIN tasks :
        /\ Rendered(i)
        /\ IsCacheHit(j)
        /\ tasks[i].request = tasks[j].request
        /\ Len(equations) = 1
        /\ equationMap[equation_key(tasks[i].request)] = equations[1]
        /\ Response(i).data = equations[1].filename
        /\ Response(j).data = equations[1].filename
        /\ proc = "exited"

----------------------------------------------------------------------------
(* C19 *)

\* The box a dynamic-mode run hands to the fit tool covers the raster.
BoxCoversRaster(i) ==
    /\ tasks[i].iWidth >= tasks[i].basePNG.width
    /\ tasks[i].iHeight >= tasks[i].basePNG.height
    /\ tasks[i].iWidth =
         tasks[i].width * tasks[i].request.cellWidth * tasks[i].sizedScale
    /\ tasks[i].iHeight =
         tasks[i].height * tasks[i].request.cellHeight * tasks[i].sizedScale

\* C19: a dynamic-mode run that called the fit tool hands it a box that
\* covers the natural raster, and computed its zoom, its span and its box
\* under one internalScale.
C19_OneScalePerRender ==
    \A i \in DOMAIN tasks :
        (isDynamic(tasks[i].request.flags) /\ "pngFitTo" \in tasks[i].called)
            => /\ BoxCoversRaster(i)
               /\ tasks[i].zoomScale = tasks[i].sizedScale

\* The part of C19 that does not depend on the zoom: the box covers the
\* raster under the internalScale of the sizing step.
C19_BoxCoversRaster ==
    \A i \in DOMAIN tasks :
        (isDynamic(tasks[i].request.flags) /\ "pngFitTo" \in tasks[i].called)
            => BoxCoversRaster(i)

====
